---- MODULE Spec2Model ----
(***************************************************************************)
(* TargetWriter (src-tauri/src/virtual_branches/target/writer.rs): the     *)
(* session-guarded, lock-bracketed writer of the four target fields, with  *)
(* several callers running write / write_default against one store.        *)
(*                                                                         *)
(* Strings that are only stored are TLA+ strings.  Paths and ids are       *)
(* sequences of atoms (an atom is "/" or a piece of a file name), so that  *)
(* a formatted path can be split into its components again.                *)
(***************************************************************************)
EXTENDS Integers, Sequences, FiniteSets, TLC

\* ---------------------------------------------------------------- bounds
NumCallers == 2
MaxCalls == 2
MaxIdLen == 1

Callers == 1..NumCallers
NoHolder == 0

\* ------------------------------------------------------- ids and targets
IdAtoms == {"branch_1", "/", "."}

RECURSIVE SeqsUpTo(_, _)
SeqsUpTo(S, n) ==
    IF n = 0 THEN {<<>>}
    ELSE LET shorter == SeqsUpTo(S, n - 1)
         IN shorter \cup {Append(s, a) : s \in {q \in shorter : Len(q) = n - 1}, a \in S}

Ids == SeqsUpTo(IdAtoms, MaxIdLen)

Oid1 == <<1, 35, 69, 103, 137, 171, 205, 239, 1, 35, 69, 103, 137, 171, 205, 239, 1, 35, 69, 103>>
Oid2 == <<254, 220, 186, 152, 118, 84, 50, 16, 254, 220, 186, 152, 118, 84, 50, 16, 254, 220, 186, 152>>

Target1 ==
    [branch_name |-> "branch name", remote_name |-> "remote name",
     remote_url |-> "remote url", sha |-> Oid1, behind |-> 0]
Target2 ==
    [branch_name |-> "updated branch name", remote_name |-> "updated remote name",
     remote_url |-> "updated remote url", sha |-> Oid2, behind |-> 0]
Target3 == [Target1 EXCEPT !.behind = 1]
Targets == {Target1, Target2, Target3}

\* ------------------------------------------------------ pure conversions
HexDigits == <<"0", "1", "2", "3", "4", "5", "6", "7", "8", "9", "a", "b", "c", "d", "e", "f">>

UpperHexDigits == <<"0", "1", "2", "3", "4", "5", "6", "7", "8", "9", "A", "B", "C", "D", "E", "F">>

RECURSIVE OidToString_upper(_)
OidToString_upper(oid) ==
    IF oid = <<>> THEN ""
    ELSE UpperHexDigits[(Head(oid) \div 16) + 1] \o UpperHexDigits[(Head(oid) % 16) + 1]
         \o OidToString_upper(Tail(oid))

RECURSIVE OidToString(_)
OidToString(oid) ==
    IF oid = <<>> THEN ""
    ELSE HexDigits[(Head(oid) \div 16) + 1] \o HexDigits[(Head(oid) % 16) + 1]
         \o OidToString(Tail(oid))

FieldOrder_swapped == <<"branch_name", "remote_name", "sha", "remote_url">>

FieldOrder == <<"branch_name", "remote_name", "remote_url", "sha">>
NumFields == Len(FieldOrder)
Fields == {FieldOrder[n] : n \in 1..NumFields}

FieldValue_copy_paste(t, f) ==
    CASE f = "branch_name" -> t.branch_name
      [] f = "remote_name" -> t.remote_name
      [] f = "remote_url" -> t.remote_name
      [] f = "sha" -> OidToString(t.sha)

FieldValue(t, f) ==
    CASE f = "branch_name" -> t.branch_name
      [] f = "remote_name" -> t.remote_name
      [] f = "remote_url" -> t.remote_url
      [] f = "sha" -> OidToString(t.sha)

write_default_path(f) == <<"branches", "/", "target", "/", f>>
write_path(i, f) == <<"branches", "/">> \o i \o <<"/", "target", "/", f>>

PathOf(k, i, f) == IF k = "default" THEN write_default_path(f) ELSE write_path(i, f)

write_default_context(step) ==
    CASE step = "session" -> "Failed to get or create current session"
      [] step = "branch_name" -> "Failed to write default target branch name"
      [] step = "remote_name" -> "Failed to write default target remote name "
      [] step = "remote_url" -> "Failed to write default target remote name "
      [] step = "sha" -> "Failed to write default target sha"

write_context(step) ==
    CASE step = "session" -> "Failed to get or create current session"
      [] step = "branch_name" -> "Failed to write branch target branch name"
      [] step = "remote_name" -> "Failed to write branch target remote"
      [] step = "remote_url" -> "Failed to write branch target remote"
      [] step = "sha" -> "Failed to write branch target sha"

ContextOf(k, step) == IF k = "default" THEN write_default_context(step) ELSE write_context(step)

\* --------------------------------------------- collaborators (interfaces)
\* The string writer resolves a relative path the way the file system does:
\* empty and "." components are skipped, ".." steps to the parent.
SessionError == "SessionError"
LockError == "LockError"
WriteError == "WriteError"

RECURSIVE Components(_, _, _)
Components(path, cur, acc) ==
    IF path = <<>> THEN Append(acc, cur)
    ELSE IF Head(path) = "/" THEN Components(Tail(path), <<>>, Append(acc, cur))
    ELSE Components(Tail(path), Append(cur, Head(path)), acc)

RECURSIVE Normalize(_, _)
Normalize(comps, acc) ==
    IF comps = <<>> THEN acc
    ELSE LET h == Head(comps)
             rest == Tail(comps)
         IN IF h = <<>> \/ h = <<".">> THEN Normalize(rest, acc)
            ELSE IF h = <<".", ".">> /\ acc # <<>> /\ acc[Len(acc)] # <<".", ".">>
                 THEN Normalize(rest, SubSeq(acc, 1, Len(acc) - 1))
            ELSE Normalize(rest, Append(acc, h))

Resolve(path) == Normalize(Components(path, <<>>, <<>>), <<>>)

write_string(fs, path, content) ==
    LET loc == Resolve(path)
    IN [l \in (DOMAIN fs) \cup {loc} |-> IF l = loc THEN content ELSE fs[l]]

Exists(fs, path) == Resolve(path) \in DOMAIN fs
Holds(fs, path, content) == Exists(fs, path) /\ fs[Resolve(path)] = content

Truncated == ""

\* ------------------------------------------------------------------ state
\* files .. before, calls: the store, the lock, and each caller's call.
\* trace: the collaborator operations a call has invoked, with their outcome.
\* keepArgs: callers keep the arguments of a failed call, to repeat the call.
\* retry: the call repeats the caller's previous, failed call.
\* failedScopes: the scopes (as sets of locations) in which a field write failed.
VARIABLES files, session, holder, pc, kind, id, target, field, result, failedAt,
          touched, before, calls, trace, retry, failedScopes, keepArgs

vars == <<files, session, holder, pc, kind, id, target, field, result, failedAt,
          touched, before, calls, trace, retry, failedScopes, keepArgs>>

Ok == [ok |-> TRUE, chain |-> <<>>]
Err(chain) == [ok |-> FALSE, chain |-> chain]

MetaName == <<"branches", "/", "branch_1", "/", "meta", "/", "name">>

\* What the four files of a scope hold (<<>> for a file that does not exist).
Snapshot(fs, k, i) ==
    [f \in Fields |->
        LET p == PathOf(k, i, f)
        IN IF Exists(fs, p) THEN <<fs[Resolve(p)]>> ELSE <<>>]

NoSnapshot == [f \in Fields |-> <<>>]

ScopeLocations(k, i) == {Resolve(PathOf(k, i, f)) : f \in Fields}

Invoked(c, step, ok) == trace' = [trace EXCEPT ![c] = Append(@, <<step, ok>>)]

\* The locals of a call are gone once it has returned; what stays with the
\* caller is the returned value (and which operation failed where).
DropLocals(c) ==
    /\ field' = [field EXCEPT ![c] = 1]
    /\ touched' = [touched EXCEPT ![c] = {}]
    /\ before' = [before EXCEPT ![c] = NoSnapshot]
    /\ retry' = [retry EXCEPT ![c] = FALSE]

DropArgs(c) ==
    /\ id' = [id EXCEPT ![c] = <<>>]
    /\ target' = [target EXCEPT ![c] = Target1]

\* A caller that is going to repeat a failed call keeps its arguments.
KeepOrDropArgs(c, failed) ==
    IF keepArgs /\ failed THEN UNCHANGED <<id, target>> ELSE DropArgs(c)

InitStore ==
    /\ files = write_string(<<>>, MetaName, "branch_name_1")
    /\ session = FALSE
    /\ holder = NoHolder
    /\ pc = [c \in Callers |-> "idle"]
    /\ kind = [c \in Callers |-> "default"]
    /\ id = [c \in Callers |-> <<>>]
    /\ target = [c \in Callers |-> Target1]
    /\ field = [c \in Callers |-> 1]
    /\ result = [c \in Callers |-> Ok]
    /\ failedAt = [c \in Callers |-> "none"]
    /\ touched = [c \in Callers |-> {}]
    /\ before = [c \in Callers |-> NoSnapshot]
    /\ calls = 0
    /\ trace = [c \in Callers |-> <<>>]
    /\ retry = [c \in Callers |-> FALSE]
    /\ failedScopes = {}

Init == InitStore /\ keepArgs = FALSE

RetryInit == InitStore /\ keepArgs = TRUE

Repeats(c, k, i, t) ==
    keepArgs /\ pc[c] = "returned" /\ ~result[c].ok /\ kind[c] = k /\ id[c] = i /\ target[c] = t

\* ---------------------------------------------------------------- actions
\* Entry of a call: the arguments become the locals of the call.
write_default(c, t) ==
    /\ pc[c] \in {"idle", "returned"}
    /\ calls < MaxCalls
    /\ calls' = calls + 1
    /\ pc' = [pc EXCEPT ![c] = "session"]
    /\ kind' = [kind EXCEPT ![c] = "default"]
    /\ id' = [id EXCEPT ![c] = <<>>]
    /\ target' = [target EXCEPT ![c] = t]
    /\ field' = [field EXCEPT ![c] = 1]
    /\ result' = [result EXCEPT ![c] = Ok]
    /\ failedAt' = [failedAt EXCEPT ![c] = "none"]
    /\ touched' = [touched EXCEPT ![c] = {}]
    /\ before' = [before EXCEPT ![c] = NoSnapshot]
    /\ trace' = [trace EXCEPT ![c] = <<>>]
    /\ retry' = [retry EXCEPT ![c] = Repeats(c, "default", <<>>, t)]
    /\ UNCHANGED <<files, session, holder, failedScopes, keepArgs>>

write(c, i, t) ==
    /\ pc[c] \in {"idle", "returned"}
    /\ calls < MaxCalls
    /\ calls' = calls + 1
    /\ pc' = [pc EXCEPT ![c] = "session"]
    /\ kind' = [kind EXCEPT ![c] = "id"]
    /\ id' = [id EXCEPT ![c] = i]
    /\ target' = [target EXCEPT ![c] = t]
    /\ field' = [field EXCEPT ![c] = 1]
    /\ result' = [result EXCEPT ![c] = Ok]
    /\ failedAt' = [failedAt EXCEPT ![c] = "none"]
    /\ touched' = [touched EXCEPT ![c] = {}]
    /\ before' = [before EXCEPT ![c] = NoSnapshot]
    /\ trace' = [trace EXCEPT ![c] = <<>>]
    /\ retry' = [retry EXCEPT ![c] = Repeats(c, "id", i, t)]
    /\ UNCHANGED <<files, session, holder, failedScopes, keepArgs>>

get_or_create_current_session_late(c) ==
    /\ pc[c] = "session"
    /\ LET path == PathOf(kind[c], id[c], "branch_name")
       IN /\ files' = write_string(files, path, FieldValue(target[c], "branch_name"))
          /\ pc' = [pc EXCEPT ![c] = "returned"]
          /\ result' = [result EXCEPT ![c] = Err(<<ContextOf(kind[c], "session"), SessionError>>)]
          /\ failedAt' = [failedAt EXCEPT ![c] = "session"]
          /\ touched' = [touched EXCEPT ![c] = {Resolve(path)}]
    /\ Invoked(c, "session", FALSE)
    /\ UNCHANGED <<session, holder, kind, id, target, field, before, calls, retry, failedScopes, keepArgs>>

get_or_create_current_session_unchecked(c) ==
    /\ pc[c] = "session"
    /\ pc' = [pc EXCEPT ![c] = "lock"]
    /\ \E ok \in BOOLEAN :
          /\ session' = (session \/ ok)
          /\ Invoked(c, "session", ok)
    /\ UNCHANGED <<files, holder, kind, id, target, field, result, failedAt, touched,
                   before, calls, retry, failedScopes, keepArgs>>

\* self.repository.get_or_create_current_session().context(..)?
get_or_create_current_session(c) ==
    /\ pc[c] = "session"
    /\ \/ /\ session' = TRUE
          /\ pc' = [pc EXCEPT ![c] = "lock"]
          /\ Invoked(c, "session", TRUE)
          /\ UNCHANGED <<result, failedAt, id, target, field, touched, before, retry>>
       \/ /\ pc' = [pc EXCEPT ![c] = "returned"]
          /\ result' = [result EXCEPT ![c] = Err(<<ContextOf(kind[c], "session"), SessionError>>)]
          /\ failedAt' = [failedAt EXCEPT ![c] = "session"]
          /\ Invoked(c, "session", FALSE)
          /\ DropLocals(c)
          /\ KeepOrDropArgs(c, TRUE)
          /\ UNCHANGED session
    /\ UNCHANGED <<files, holder, kind, calls, failedScopes, keepArgs>>

lock_skipped(c) ==
    /\ pc[c] = "lock"
    /\ pc' = [pc EXCEPT ![c] = "write"]
    /\ before' = [before EXCEPT ![c] = Snapshot(files, kind[c], id[c])]
    /\ UNCHANGED <<files, session, holder, kind, id, target, field, result, failedAt,
                   touched, calls, trace, retry, failedScopes, keepArgs>>

lock_unchecked(c) ==
    /\ pc[c] = "lock"
    /\ pc' = [pc EXCEPT ![c] = "write"]
    /\ before' = [before EXCEPT ![c] = Snapshot(files, kind[c], id[c])]
    /\ \/ /\ holder = NoHolder
          /\ holder' = c
          /\ Invoked(c, "lock", TRUE)
       \/ /\ UNCHANGED holder
          /\ Invoked(c, "lock", FALSE)
    /\ UNCHANGED <<files, session, kind, id, target, field, result, failedAt,
                   touched, calls, retry, failedScopes, keepArgs>>

lock_after_defer(c) ==
    /\ pc[c] = "lock"
    /\ \/ /\ holder = NoHolder
          /\ holder' = c
          /\ pc' = [pc EXCEPT ![c] = "write"]
          /\ before' = [before EXCEPT ![c] = Snapshot(files, kind[c], id[c])]
          /\ Invoked(c, "lock", TRUE)
          /\ UNCHANGED <<result, failedAt>>
       \/ /\ pc' = [pc EXCEPT ![c] = "unlock"]
          /\ result' = [result EXCEPT ![c] = Err(<<LockError>>)]
          /\ failedAt' = [failedAt EXCEPT ![c] = "lock"]
          /\ Invoked(c, "lock", FALSE)
          /\ UNCHANGED <<holder, before>>
    /\ UNCHANGED <<files, session, kind, id, target, field, touched, calls, retry, failedScopes, keepArgs>>

\* self.repository.lock()?  -- blocks while another caller holds the lock;
\* an error of the lock is passed on as it is.
lock(c) ==
    /\ pc[c] = "lock"
    /\ \/ /\ holder = NoHolder
          /\ holder' = c
          /\ pc' = [pc EXCEPT ![c] = "write"]
          /\ before' = [before EXCEPT ![c] = Snapshot(files, kind[c], id[c])]
          /\ Invoked(c, "lock", TRUE)
          /\ UNCHANGED <<result, failedAt, id, target, field, touched, retry>>
       \/ /\ pc' = [pc EXCEPT ![c] = "returned"]
          /\ result' = [result EXCEPT ![c] = Err(<<LockError>>)]
          /\ failedAt' = [failedAt EXCEPT ![c] = "lock"]
          /\ Invoked(c, "lock", FALSE)
          /\ DropLocals(c)
          /\ KeepOrDropArgs(c, TRUE)
          /\ UNCHANGED holder
    /\ UNCHANGED <<files, session, kind, calls, failedScopes, keepArgs>>

Appended(fs, path, content) ==
    IF Exists(fs, path) THEN fs[Resolve(path)] \o content ELSE content

write_field_appending(c) ==
    /\ pc[c] = "write"
    /\ LET f == FieldOrder[field[c]]
           path == PathOf(kind[c], id[c], f)
       IN \/ /\ files' = write_string(files, path, Appended(files, path, FieldValue(target[c], f)))
             /\ touched' = [touched EXCEPT ![c] = @ \cup {Resolve(path)}]
             /\ Invoked(c, f, TRUE)
             /\ IF field[c] < NumFields
                THEN /\ field' = [field EXCEPT ![c] = @ + 1]
                     /\ UNCHANGED pc
                ELSE /\ pc' = [pc EXCEPT ![c] = "unlock"]
                     /\ UNCHANGED field
             /\ UNCHANGED <<result, failedAt, failedScopes>>
          \/ /\ UNCHANGED <<files, touched>>
             /\ result' = [result EXCEPT ![c] = Err(<<ContextOf(kind[c], f), WriteError>>)]
             /\ failedAt' = [failedAt EXCEPT ![c] = f]
             /\ failedScopes' = failedScopes \cup {ScopeLocations(kind[c], id[c])}
             /\ Invoked(c, f, FALSE)
             /\ pc' = [pc EXCEPT ![c] = "unlock"]
             /\ UNCHANGED field
    /\ UNCHANGED <<session, holder, kind, id, target, before, calls, retry, keepArgs>>

BehindPath(k, i) ==
    IF k = "default" THEN <<"branches", "/", "target", "/", "behind">>
    ELSE <<"branches", "/">> \o i \o <<"/", "target", "/", "behind">>

write_field_and_behind(c) ==
    /\ pc[c] = "write"
    /\ LET f == FieldOrder[field[c]]
           path == PathOf(kind[c], id[c], f)
           written == write_string(files, path, FieldValue(target[c], f))
       IN /\ Invoked(c, f, TRUE)
          /\ IF field[c] < NumFields
             THEN /\ files' = written
                  /\ touched' = [touched EXCEPT ![c] = @ \cup {Resolve(path)}]
                  /\ field' = [field EXCEPT ![c] = @ + 1]
                  /\ UNCHANGED pc
             ELSE /\ files' = write_string(written, BehindPath(kind[c], id[c]),
                                           IF target[c].behind = 0 THEN "0" ELSE "1")
                  /\ touched' = [touched EXCEPT ![c] =
                                    @ \cup {Resolve(path), Resolve(BehindPath(kind[c], id[c]))}]
                  /\ pc' = [pc EXCEPT ![c] = "unlock"]
                  /\ UNCHANGED field
    /\ UNCHANGED <<session, holder, kind, id, target, before, calls, retry, result,
                   failedAt, failedScopes, keepArgs>>

\* One self.writer.write_string(path, value).context(..)? of the sequence.
\* A failed write leaves the file as it was or truncated; the call then
\* leaves the body and the deferred unlock runs.
write_field(c) ==
    /\ pc[c] = "write"
    /\ LET f == FieldOrder[field[c]]
           path == PathOf(kind[c], id[c], f)
       IN \/ /\ files' = write_string(files, path, FieldValue(target[c], f))
             /\ touched' = [touched EXCEPT ![c] = @ \cup {Resolve(path)}]
             /\ Invoked(c, f, TRUE)
             /\ IF field[c] < NumFields
                THEN /\ field' = [field EXCEPT ![c] = @ + 1]
                     /\ UNCHANGED pc
                ELSE /\ pc' = [pc EXCEPT ![c] = "unlock"]
                     /\ UNCHANGED field
             /\ UNCHANGED <<result, failedAt, failedScopes>>
          \/ /\ \/ UNCHANGED <<files, touched>>
                \/ /\ files' = write_string(files, path, Truncated)
                   /\ touched' = [touched EXCEPT ![c] = @ \cup {Resolve(path)}]
             /\ result' = [result EXCEPT ![c] = Err(<<ContextOf(kind[c], f), WriteError>>)]
             /\ failedAt' = [failedAt EXCEPT ![c] = f]
             /\ failedScopes' = failedScopes \cup {ScopeLocations(kind[c], id[c])}
             /\ Invoked(c, f, FALSE)
             /\ pc' = [pc EXCEPT ![c] = "unlock"]
             /\ UNCHANGED field
    /\ UNCHANGED <<session, holder, kind, id, target, before, calls, retry, keepArgs>>

unlock_forgotten(c) ==
    /\ pc[c] = "unlock"
    /\ pc' = [pc EXCEPT ![c] = "returned"]
    /\ DropLocals(c)
    /\ UNCHANGED <<files, session, holder, kind, id, target, result, failedAt, calls,
                   trace, failedScopes, keepArgs>>

\* defer! { self.repository.unlock().expect("Failed to unlock repository") }
\* A failing unlock panics: the call yields no value, and whether the lock
\* is still held is up to the lock.
unlock(c) ==
    /\ pc[c] = "unlock"
    /\ \/ /\ holder' = NoHolder
          /\ pc' = [pc EXCEPT ![c] = "returned"]
          /\ Invoked(c, "unlock", TRUE)
          /\ KeepOrDropArgs(c, ~result[c].ok)
          /\ UNCHANGED <<result, failedAt>>
       \/ /\ holder' \in {holder, NoHolder}
          /\ pc' = [pc EXCEPT ![c] = "panicked"]
          /\ result' = [result EXCEPT ![c] = Ok]
          /\ failedAt' = [failedAt EXCEPT ![c] = "unlock"]
          /\ Invoked(c, "unlock", FALSE)
          /\ DropArgs(c)
    /\ DropLocals(c)
    /\ UNCHANGED <<files, session, kind, calls, failedScopes, keepArgs>>

\* The process of a caller stops while it holds the lock; nothing releases
\* the lock for it.
crash(c) ==
    /\ pc[c] \in {"write", "unlock"}
    /\ holder = c
    /\ pc' = [pc EXCEPT ![c] = "crashed"]
    /\ UNCHANGED <<files, session, holder, kind, id, target, field, result, failedAt,
                   touched, before, calls, trace, retry, failedScopes, keepArgs>>

Next ==
    \/ \E c \in Callers, t \in Targets : write_default(c, t)
    \/ \E c \in Callers, i \in Ids, t \in Targets : write(c, i, t)
    \/ \E c \in Callers : get_or_create_current_session(c)
    \/ \E c \in Callers : lock(c)
    \/ \E c \in Callers : write_field(c)
    \/ \E c \in Callers : unlock(c)

Spec == Init /\ [][Next]_vars

\* Fair scheduling: a caller that can take the next step of its call takes
\* it, and every collaborator operation returns.  The lock is only obliged
\* to be granted when it is free: waiting for it is not obliged to end in an
\* error.
FairSpec ==
    /\ Spec
    /\ \A c \in Callers :
          /\ WF_vars(get_or_create_current_session(c))
          /\ WF_vars(lock(c) /\ holder' = c)
          /\ WF_vars(write_field(c))
          /\ WF_vars(unlock(c))

NextOrCrash ==
    \/ Next
    \/ \E c \in Callers : crash(c)

CrashSpec == Init /\ [][NextOrCrash]_vars

RetrySpec == RetryInit /\ [][Next]_vars

TypeOK ==
    /\ holder \in Callers \cup {NoHolder}
    /\ \A c \in Callers : pc[c] \in {"idle", "session", "lock", "write", "unlock", "returned", "panicked", "crashed"}
    /\ calls \in 0..MaxCalls

\* ----------------------------------------------------------------- claims
\* The documented layout and values, written down independently of the code.
DocOrder == <<"branch_name", "remote_name", "remote_url", "sha">>

DocPath(k, i, f) ==
    IF k = "default" THEN <<"branches", "/", "target", "/", f>>
    ELSE <<"branches", "/">> \o i \o <<"/", "target", "/", f>>

CanonicalHex(oid) ==
    IF oid = Oid1 THEN "0123456789abcdef0123456789abcdef01234567"
    ELSE "fedcba9876543210fedcba9876543210fedcba98"

DocValue(t, f) ==
    CASE f = "branch_name" -> t.branch_name
      [] f = "remote_name" -> t.remote_name
      [] f = "remote_url" -> t.remote_url
      [] f = "sha" -> CanonicalHex(t.sha)

DocHoldsAll(fs, k, i, t) ==
    \A n \in 1..4 : Holds(fs, DocPath(k, i, DocOrder[n]), DocValue(t, DocOrder[n]))

DocIndex(f) == CHOOSE n \in 1..4 : DocOrder[n] = f

InCall(c) == pc[c] \in {"session", "lock", "write", "unlock"}

ReturnsFromBody(c) == pc[c] = "unlock" /\ pc'[c] = "returned"

\* C1: when write_default(t) or write(id, t) returns success, the four
\* documented paths of its scope hold t.branch_name, t.remote_name,
\* t.remote_url and the canonical (40 digit, lowercase) hex string of t.sha.
RoundTrip ==
    [][\A c \in Callers :
          (ReturnsFromBody(c) /\ result'[c].ok)
             => DocHoldsAll(files', kind[c], id[c], target[c])]_vars

RoundTripWitness ==
    \E c \in Callers :
       /\ pc[c] = "unlock" /\ result[c].ok
       /\ kind[c] = "id" /\ id[c] = <<"branch_1">> /\ target[c] = Target2
       /\ Holds(files, DocPath("id", <<"branch_1">>, "sha"), "fedcba9876543210fedcba9876543210fedcba98")

\* C2: no call has returned while still holding the store lock, whether it
\* succeeded or failed at the first, second, third or fourth field write.
LockReleasedOnReturn == \A c \in Callers : pc[c] = "returned" => holder # c

LockReleasedOnReturnWitness ==
    \E c \in Callers :
       /\ pc[c] = "returned" /\ failedAt[c] = "remote_url" /\ ~result[c].ok
       /\ holder = NoHolder

\* C3: the field writes of two concurrent calls never interleave: while one
\* call is between its first and its last field write, no other caller
\* performs a field write.
WritesBy(d) == pc[d] = "write" /\ (pc'[d] # pc[d] \/ field'[d] # field[d])

NoInterleaving ==
    [][\A c, d \in Callers :
          (c # d /\ pc[c] = "write" /\ field[c] > 1) => ~WritesBy(d)]_vars

NoInterleavingWitness ==
    \E c, d \in Callers :
       /\ c # d
       /\ pc[c] = "write" /\ field[c] > 1
       /\ pc[d] = "lock"

\* C4: when a call returns after its k-th field write failed, it returns that
\* failure, fields 1..k-1 of its scope hold the new target's values, and
\* fields k+1..4 were not written by the call and hold what they held when
\* the call started its write sequence.
AbortWithoutRollback ==
    [][\A c \in Callers :
          (ReturnsFromBody(c) /\ ~result[c].ok)
             => LET k == DocIndex(failedAt[c])
                IN /\ result'[c] = result[c]
                   /\ result'[c].chain[Len(result'[c].chain)] = WriteError
                   /\ \A n \in 1..4 :
                         /\ n < k => Holds(files', DocPath(kind[c], id[c], DocOrder[n]),
                                           DocValue(target[c], DocOrder[n]))
                         /\ n > k => /\ Resolve(DocPath(kind[c], id[c], DocOrder[n])) \notin touched[c]
                                     /\ Snapshot(files', kind[c], id[c])[DocOrder[n]]
                                           = before[c][DocOrder[n]]]_vars

AbortWithoutRollbackWitness ==
    \E c \in Callers :
       /\ pc[c] = "unlock" /\ failedAt[c] = "remote_url"
       /\ target[c] = Target2
       /\ before[c]["sha"] = <<"0123456789abcdef0123456789abcdef01234567">>
       /\ Holds(files, DocPath(kind[c], id[c], "remote_name"), "updated remote name")
       /\ Holds(files, DocPath(kind[c], id[c], "sha"), "0123456789abcdef0123456789abcdef01234567")

\* C5: a call that returns because ensuring the session failed or acquiring
\* the lock failed returns an error and has changed no file of the store.
NoEffectOnEarlyFailure ==
    [][\A c \in Callers :
          (pc[c] \in {"session", "lock"} /\ pc'[c] = "returned")
             => /\ ~result'[c].ok
                /\ touched[c] = {}
                /\ files' = files]_vars

NoEffectOnEarlyFailureWitness ==
    \E c, d \in Callers :
       /\ pc[c] = "returned" /\ failedAt[c] = "lock" /\ ~result[c].ok
       /\ pc[d] = "returned" /\ failedAt[d] = "session" /\ ~result[d].ok

\* C6: every failure of a collaborator operation (session ensure, lock
\* acquire, a field write, the lock release) ends the call by returning an
\* error; no call ends by panicking.
NeverPanics == \A c \in Callers : pc[c] # "panicked"

\* C7: the errors returned for failures at different points (session ensure,
\* lock acquire, each of the four field writes) and in different scopes
\* (default, id) are pairwise different.
ErrorsIdentifyFailure ==
    \A c, d \in Callers :
       (/\ pc[c] = "returned" /\ ~result[c].ok
        /\ pc[d] = "returned" /\ ~result[d].ok
        /\ <<kind[c], failedAt[c]>> # <<kind[d], failedAt[d]>>)
          => result[c].chain # result[d].chain

\* C8: when a call with target t2 returns success in a scope in which an
\* earlier write of a target t1 had left values of t1, all four fields hold
\* t2's values and none holds a value of t1 that differs from t2's.
UpdateOverwrites ==
    [][\A c \in Callers, t1 \in Targets :
          (/\ ReturnsFromBody(c) /\ result'[c].ok
           /\ \E f \in Fields : before[c][f] = <<DocValue(t1, f)>>)
             => /\ DocHoldsAll(files', kind[c], id[c], target[c])
                /\ \A f \in Fields :
                      DocValue(t1, f) # DocValue(target[c], f)
                         => ~Holds(files', DocPath(kind[c], id[c], f), DocValue(t1, f))]_vars

UpdateOverwritesWitness ==
    \E c \in Callers :
       /\ pc[c] = "unlock" /\ result[c].ok
       /\ target[c] = Target2
       /\ \A f \in Fields : before[c][f] = <<DocValue(Target1, f)>>
       /\ DocHoldsAll(files, kind[c], id[c], Target2)

\* C9: write(id, t) changes nothing but the four files of branches/<id>/target:
\* not the default target's files, not another id's target files, not a
\* branches/<id>/meta file; write_default(t) changes nothing but the four
\* files of branches/target.
MetaFields == {"name", "applied", "upstream", "created_timestamp_ms", "updated_timestamp_ms"}

MetaLocations == {Resolve(<<"branches", "/">> \o i \o <<"/", "meta", "/", m>>) : i \in Ids, m \in MetaFields}

DocLocations(k, i) == {Resolve(DocPath(k, i, f)) : f \in Fields}

OtherLocations(i) ==
    MetaLocations \cup DocLocations("default", <<>>)
       \cup UNION {DocLocations("id", j) : j \in Ids \ {i}}

ScopeIsolation ==
    \A c \in Callers :
       pc[c] \in {"write", "unlock"}
          => /\ touched[c] \subseteq DocLocations(kind[c], id[c])
             /\ kind[c] = "id" => touched[c] \cap OtherLocations(id[c]) = {}

\* C10: the four locations written by write(id, _) are disjoint from those
\* written by write_default(_), and those of write(id1, _) and write(id2, _)
\* are disjoint for different ids, whatever the ids are.
Scope(c) == IF kind[c] = "default" THEN <<"default">> ELSE <<"id", id[c]>>

Locations(c) == {Resolve(PathOf(kind[c], id[c], f)) : f \in Fields}

NoLayoutCollision ==
    \A c, d \in Callers :
       (InCall(c) /\ InCall(d) /\ Scope(c) # Scope(d))
          => Locations(c) \cap Locations(d) = {}

\* C11: when a call that repeats the caller's previous, failed call (failed at
\* the session, the lock or any field write) returns success, all four
\* fields of its scope hold the target's values, whatever the failed call
\* left behind.
RetryConverges ==
    [][\A c \in Callers :
          (ReturnsFromBody(c) /\ result'[c].ok /\ retry[c])
             => DocHoldsAll(files', kind[c], id[c], target[c])]_vars

RetryConvergesWitness ==
    \E c \in Callers :
       /\ pc[c] = "unlock" /\ result[c].ok /\ retry[c]
       /\ target[c] = Target2
       /\ before[c]["branch_name"] = <<"updated branch name">>
       /\ before[c]["remote_name"] = <<Truncated>>
       /\ before[c]["sha"] = <<>>
       /\ DocHoldsAll(files, kind[c], id[c], Target2)

\* C12: writing a target to a scope that already holds it (it was written
\* once) changes nothing: every successful field write of the second call
\* leaves the whole store, over all paths, as it was after the first.
AlreadyWritten(c) == \A f \in Fields : before[c][f] = <<DocValue(target[c], f)>>

Idempotent ==
    [][\A c \in Callers :
          (WritesBy(c) /\ failedAt'[c] = "none" /\ AlreadyWritten(c))
             => files' = files]_vars

IdempotentWitness ==
    \E c \in Callers :
       /\ pc[c] = "unlock" /\ result[c].ok
       /\ target[c] = Target2 /\ kind[c] = "default"
       /\ AlreadyWritten(c)
       /\ DocHoldsAll(files, "default", <<>>, Target2)

\* C13: under fair scheduling every call eventually returns, and no caller
\* waits for the lock forever, also after earlier calls failed at a field
\* write.
NoIndefiniteBlocking ==
    \A c \in Callers :
       /\ InCall(c) ~> pc[c] = "returned"
       /\ pc[c] = "lock" ~> pc[c] # "lock"

\* C14: within a call the operations are invoked in the order ensure-session,
\* acquire-lock, write branch_name, remote_name, remote_url, sha and, last,
\* release-lock; an operation other than the release is invoked only if every
\* earlier one succeeded, so the lock is never acquired and no field is
\* written before the call's ensure-session has succeeded.
DocProtocol == <<"session", "lock", "branch_name", "remote_name", "remote_url", "sha">>

BeforeRelease(tr) ==
    IF tr # <<>> /\ tr[Len(tr)][1] = "unlock" THEN SubSeq(tr, 1, Len(tr) - 1) ELSE tr

ProtocolOrder ==
    \A c \in Callers :
       LET body == BeforeRelease(trace[c])
       IN /\ Len(body) <= Len(DocProtocol)
          /\ \A n \in 1..Len(body) :
                /\ body[n][1] = DocProtocol[n]
                /\ n < Len(body) => body[n][2]

ProtocolOrderWitness ==
    \E c \in Callers :
       /\ pc[c] = "returned"
       /\ trace[c] = <<<<"session", TRUE>>, <<"lock", TRUE>>, <<"branch_name", TRUE>>,
                       <<"remote_name", TRUE>>, <<"remote_url", TRUE>>, <<"sha", TRUE>>,
                       <<"unlock", TRUE>>>>

\* C15: in every state in which a caller is about to perform a field write,
\* that caller is the holder of the store lock.
WritesUnderLock == \A c \in Callers : pc[c] = "write" => holder = c

WritesUnderLockWitness ==
    \E c, d \in Callers :
       /\ pc[c] = "write" /\ field[c] = 3 /\ holder = c
       /\ pc[d] = "lock"

\* C16: a call invokes the lock acquire at most once, and the release exactly
\* once if its acquire succeeded and not at all otherwise (so not after a
\* failed session-ensure or a failed acquire); when it invokes the release
\* it is the holder of the lock.
Count(tr, step) == Cardinality({n \in 1..Len(tr) : tr[n][1] = step})

Acquired(tr) == \E n \in 1..Len(tr) : tr[n] = <<"lock", TRUE>>

BalancedLockUsage ==
    \A c \in Callers :
       /\ Count(trace[c], "lock") <= 1
       /\ Count(trace[c], "unlock") <= 1
       /\ Count(trace[c], "unlock") = 1 => Acquired(trace[c])
       /\ pc[c] = "unlock" => (Acquired(trace[c]) /\ holder = c)
       /\ pc[c] \in {"returned", "panicked"}
             => Count(trace[c], "unlock") = (IF Acquired(trace[c]) THEN 1 ELSE 0)

BalancedLockUsageWitness ==
    \E c, d \in Callers :
       /\ pc[c] = "returned" /\ failedAt[c] = "lock" /\ Count(trace[c], "unlock") = 0
       /\ pc[d] = "returned" /\ failedAt[d] = "sha" /\ Count(trace[d], "unlock") = 1

\* C17: a reader that holds the store lock reads while no writer is inside
\* its write sequence, i.e. in a state in which no caller of write /
\* write_default holds the lock.  In every such state, the four fields of a
\* scope in which no field write has failed are all absent (initial state) or
\* all hold the values of one and the same target.
AllScopes == {<<"default", <<>>>>} \cup {<<"id", i>> : i \in Ids}

Whole(snap) ==
    \/ \A f \in Fields : snap[f] = <<>>
    \/ \E t \in Targets : \A f \in Fields : snap[f] = <<DocValue(t, f)>>

BehindNotPersisted ==
    [][\A c \in Callers :
          /\ (WritesBy(c) /\ failedAt'[c] = "none")
                => \E f \in Fields :
                      files' = write_string(files, DocPath(kind[c], id[c], f),
                                            DocValue([target[c] EXCEPT !.behind = 0], f))
          /\ (ReturnsFromBody(c) /\ result'[c].ok)
                => /\ touched[c] = DocLocations(kind[c], id[c])
                   /\ Cardinality(touched[c]) = 4]_vars

BehindNotPersistedWitness ==
    \E c \in Callers :
       /\ pc[c] = "unlock" /\ result[c].ok
       /\ target[c] = Target3
       /\ DocHoldsAll(files, kind[c], id[c], Target1)
       /\ DOMAIN files = DocLocations(kind[c], id[c]) \cup {Resolve(MetaName)}

\* C19 (as claimed): once a caller has crashed while holding the lock, no
\* other caller performs a field write or returns.
CrashBlocksEveryone ==
    [][\A c, d \in Callers :
          (c # d /\ pc[c] = "crashed")
             => /\ ~WritesBy(d)
                /\ ~(pc[d] # "returned" /\ pc'[d] = "returned")]_vars

\* C19 (amended): once a caller has crashed while holding the lock, no other
\* caller performs a field write or returns success; a call can still
\* return the error of a failed session-ensure or of a failed lock acquire.
CrashBlocksWriters ==
    [][\A c, d \in Callers :
          (c # d /\ pc[c] = "crashed")
             => /\ ~WritesBy(d)
                /\ (pc[d] # "returned" /\ pc'[d] = "returned")
                      => (~result'[d].ok /\ failedAt'[d] \in {"session", "lock"})]_vars

CrashBlocksWritersWitness ==
    \E c, d \in Callers :
       /\ c # d
       /\ pc[c] = "crashed" /\ holder = c /\ field[c] = 2
       /\ pc[d] = "lock"
====
